---- MODULE Spec2Model ----
(***************************************************************************)
(* foobar-daemon: configuration resolution (config.rs), the startup chain  *)
(* of main (main.rs) and the maintenance worker loop that inserts into or  *)
(* evicts from the items table once per sleep interval.                    *)
(***************************************************************************)
EXTENDS Integers, FiniteSets, Sequences, TLC

VARIABLES
    args,         \* CliArgs as parsed by clap (config.rs:21-46)
    file,         \* what reading/parsing the file at args.config yields
    config,       \* the resolved Config; res is "unset" before, "Err" on failure
    mainPc,       \* position of main()
    failedStep,   \* the startup step whose error main returned, or "none"
    done,         \* startup steps that completed successfully
    samplerPc,    \* the metrics task spawned by init_metrics
    workerPc,     \* the foobar_worker task
    items,        \* ids of the rows of table items
    nextId,       \* next value of the identity sequence of items.id
    num_items,    \* worker local: count(*) read in this cycle
    random,       \* worker local: random() read in this cycle, in hundredths
    before,       \* history: items when the current cycle started
    stmtBefore,   \* history: items right before the cycle's write statement
    stmtAfter,    \* history: items right after the cycle's write statement
    lastOp,       \* history: statement the last finished cycle reached
    lastRes,      \* history: res of the last finished cycle
    consecFails,  \* history: finished cycles in a row whose res was Err
    sleeps,       \* history: sleeps completed since the last cycle finished
    cycleIns,     \* history: rows the worker inserted in the current cycle
    cycleDel,     \* history: rows the worker deleted in the current cycle
    cycleStmts,   \* history: write statements the worker issued in the cycle
    extOps        \* history: statements run by writers other than the worker

vars == <<args, file, config, mainPc, failedStep, done, samplerPc, workerPc,
          items, nextId, num_items, random, before, stmtBefore, stmtAfter,
          lastOp, lastRes, consecFails, sleeps, cycleIns, cycleDel, cycleStmts,
          extOps>>

cfgVars == <<args, file, config>>
mainVars == <<mainPc, failedStep, done>>
tableVars == <<items, nextId>>
localVars == <<num_items, random>>
histVars == <<before, stmtBefore, stmtAfter, lastOp, lastRes, consecFails,
              sleeps, cycleIns, cycleDel, cycleStmts>>

(***************************************************************************)
(* Bounds of the model.                                                    *)
(***************************************************************************)
MaxInitRows == 22   \* rows the table may hold when the daemon starts
MaxId == 26         \* largest id the identity sequence hands out
MaxFails == 3       \* store failures injected in a row
MaxExtOps == 2      \* statements of writers other than the worker
ExtRoom == 2        \* ids left in the sequence when other writers are modelled

(***************************************************************************)
(* Configuration resolver (config.rs).                                     *)
(***************************************************************************)
None == "None"
DEFAULT_DSN == "postgresql://foobar@localhost/foobar"
Values == {"A", "B"}
Opt == Values \cup {None}
Fields == {"dsn", "log_directory", "loki_url", "prometheus_export"}

CliArgs == [config : {None, "path"}, dsn : Opt, log_directory : Opt,
            loki_url : Opt, prometheus_export : Opt]

FileConfig == [dsn : Opt, log_directory : Opt, loki_url : Opt,
               prometheus_export : Opt]

\* #[derive(Default)] of FileConfig: every field None
FileConfigDefault == [dsn |-> None, log_directory |-> None, loki_url |-> None,
                      prometheus_export |-> None]

\* outcomes of fs::read / from_utf8 / toml::from_str on the file at args.config;
\* "nofile" when no -c was given
FileStatus == {"ok", "unreadable", "invalid"}

FileOutcomes ==
    {[status |-> "ok", content |-> c] : c \in FileConfig}
    \cup {[status |-> s, content |-> FileConfigDefault] :
             s \in {"unreadable", "invalid"}}

NoFile == [status |-> "nofile", content |-> FileConfigDefault]

\* Option::or
OptionOr(a, b) == IF a # None THEN a ELSE b

\* Option::unwrap_or
UnwrapOr(a, d) == IF a # None THEN a ELSE d

\* Config before main has resolved it, and the Err of Config::parse
ConfigUnset == [res |-> "unset", dsn |-> None, log_directory |-> None,
                loki_url |-> None, prometheus_export |-> None]

ConfigErr == [res |-> "Err", dsn |-> None, log_directory |-> None,
              loki_url |-> None, prometheus_export |-> None]

\* order of the sources swapped: the file wins over the command line
ParseConfig_fileFirst(a, f) ==
    IF a.config # None /\ f.status # "ok"
    THEN ConfigErr
    ELSE LET c == IF a.config # None THEN f.content ELSE FileConfigDefault
         IN [res |-> "Ok",
             dsn |-> UnwrapOr(OptionOr(c.dsn, a.dsn), DEFAULT_DSN),
             log_directory |-> OptionOr(c.log_directory, a.log_directory),
             loki_url |-> OptionOr(c.loki_url, a.loki_url),
             prometheus_export |->
                 OptionOr(c.prometheus_export, a.prometheus_export)]

\* Config::parse
ParseConfig(a, f) ==
    IF a.config # None /\ f.status # "ok"
    THEN ConfigErr
    ELSE LET c == IF a.config # None THEN f.content ELSE FileConfigDefault
         IN [res |-> "Ok",
             dsn |-> UnwrapOr(OptionOr(a.dsn, c.dsn), DEFAULT_DSN),
             log_directory |-> OptionOr(a.log_directory, c.log_directory),
             loki_url |-> OptionOr(a.loki_url, c.loki_url),
             prometheus_export |->
                 OptionOr(a.prometheus_export, c.prometheus_export)]

\* every command line together with every outcome of loading its file
AllInputs ==
    {<<a, NoFile>> : a \in {x \in CliArgs : x.config = None}}
    \cup ({x \in CliArgs : x.config # None} \X FileOutcomes)

\* the command lines the daemon model is started with
StartupInputs ==
    {in \in AllInputs :
        /\ in[1].dsn = None
        /\ in[1].log_directory = None
        /\ in[1].loki_url \in {None, "A"}
        /\ in[1].prometheus_export \in {None, "A"}
        /\ in[1].loki_url = "A" => in[1].prometheus_export = "A"
        /\ in[2].status \in {"nofile", "unreadable"}}

(***************************************************************************)
(* The items table and the worker's statements (main.rs:186-215).          *)
(***************************************************************************)
INSERT_BELOW == 10      \* num_items < 10
INSERT_BELOW_RND == 20  \* num_items < 20
HALF == 50              \* random < 0.5, in hundredths
RandomValues == {0, 49, 50, 99}

\* tables the daemon may find at startup: the store outlives the process
InitTables ==
    {1..k : k \in 0..MaxInitRows} \cup {{2 * j : j \in 1..k} : k \in 1..MaxInitRows}

SetMax(S) == CHOOSE m \in S : \A x \in S : x <= m

\* SELECT min(id) FROM items: <<>> is NULL
MinIdQuery_max(S) == IF S = {} THEN <<>> ELSE <<SetMax(S)>>

MinIdQuery(S) ==
    IF S = {} THEN <<>> ELSE <<CHOOSE m \in S : \A x \in S : m <= x>>

\* DELETE FROM items WHERE id = (SELECT min(id) FROM items)
DeleteMin(S) ==
    LET q == MinIdQuery(S)
    IN S \ {i \in S : q # <<>> /\ i = q[1]}

\* || written as &&
ShouldInsert_and(n, r) == n < INSERT_BELOW /\ (n < INSERT_BELOW_RND /\ r < HALF)

\* <= 20 instead of < 20
ShouldInsert_le(n, r) == n < INSERT_BELOW \/ (n <= INSERT_BELOW_RND /\ r < HALF)

\* num_items < 10 || (num_items < 20 && random < 0.5)
ShouldInsert(n, r) == n < INSERT_BELOW \/ (n < INSERT_BELOW_RND /\ r < HALF)

\* the loop breaks on an error
AfterCycle_break(result) == IF result = "Err" THEN "terminated" ELSE "sleep"

\* an error restarts the cycle at once, without the sleep
AfterCycle_retry(result) == IF result = "Err" THEN "read" ELSE "sleep"

\* match res { Err => error!(..), _ => {} }; sleep(5s).await
AfterCycle(result) == "sleep"

\* the try block has produced res: log, then sleep
EndCycle(result, op) ==
    /\ workerPc' = AfterCycle(result)
    /\ lastRes' = result
    /\ lastOp' = op
    /\ consecFails' = IF result = "Err" THEN consecFails + 1 ELSE 0
    /\ sleeps' = 0

(***************************************************************************)
(* Initial states.                                                         *)
(***************************************************************************)
InitWith(inputs, tables, room) ==
    /\ \E in \in inputs :
           /\ args = in[1]
           /\ file = in[2]
    /\ config = ConfigUnset
    /\ mainPc = "config"
    /\ failedStep = "none"
    /\ done = {}
    /\ samplerPc = "unspawned"
    /\ workerPc = "unspawned"
    /\ items \in tables
    /\ nextId = IF room > 0 THEN MaxId - room + 1
                ELSE IF items = {} THEN 1 ELSE SetMax(items) + 1
    /\ num_items = 0
    /\ random = 0
    /\ before = {}
    /\ stmtBefore = {}
    /\ stmtAfter = {}
    /\ lastOp = "none"
    /\ lastRes = "none"
    /\ consecFails = 0
    /\ sleeps = 0
    /\ cycleIns = 0
    /\ cycleDel = 0
    /\ cycleStmts = 0
    /\ extOps = 0

\* room = 0: the sequence stands right after the newest row
Init == InitWith(StartupInputs, InitTables, 0)

(***************************************************************************)
(* main (main.rs:159-234).                                                 *)
(***************************************************************************)
Running == mainPc # "exit"

\* `?` on a failed step: main returns the error, the runtime is dropped
Abort(step) ==
    /\ mainPc' = "exit"
    /\ failedStep' = step
    /\ done' = done

\* a failed migration is ignored
Advance_skipMigrate(step, next) ==
    /\ mainPc' = IF step = "schema" THEN "spawn" ELSE next
    /\ failedStep' = failedStep
    /\ done' = done \cup {step}

Advance(step, next) ==
    /\ mainPc' = next
    /\ failedStep' = failedStep
    /\ done' = done \cup {step}

\* let config = Config::parse().with_context(..)?
MainConfig ==
    /\ mainPc = "config"
    /\ config' = ParseConfig(args, file)
    /\ IF config'.res = "Err" THEN Abort("config") ELSE Advance("config", "logging")
    /\ UNCHANGED <<args, file, samplerPc, workerPc, tableVars, localVars,
                   histVars, extOps>>

\* init_logging(&config)?: only the loki builder and the file appender can
\* fail; the loki forwarding task it spawns touches no state kept here
MainInitLogging ==
    /\ mainPc = "logging"
    /\ \/ Advance("logging", "metrics")
       \/ /\ config.loki_url # None \/ config.log_directory # None
          /\ Abort("logging")
    /\ UNCHANGED <<cfgVars, samplerPc, workerPc, tableVars, localVars,
                   histVars, extOps>>

\* init_metrics(&config)?: with an exporter address, install() may fail;
\* otherwise the sampler loop is spawned here
MainInitMetrics ==
    /\ mainPc = "metrics"
    /\ \/ /\ config.prometheus_export = None
          /\ Advance("metrics", "database")
          /\ samplerPc' = samplerPc
       \/ /\ config.prometheus_export # None
          /\ Advance("metrics", "database")
          /\ samplerPc' = "collect"
       \/ /\ config.prometheus_export # None
          /\ Abort("metrics")
          /\ samplerPc' = samplerPc
    /\ UNCHANGED <<cfgVars, workerPc, tableVars, localVars, histVars, extOps>>

\* init_database(&config).await?
MainInitDatabase ==
    /\ mainPc = "database"
    /\ \/ Advance("database", "schema")
       \/ Abort("database")
    /\ UNCHANGED <<cfgVars, samplerPc, workerPc, tableVars, localVars,
                   histVars, extOps>>

\* CREATE SCHEMA IF NOT EXISTS foobar
MainCreateSchema ==
    /\ mainPc = "schema"
    /\ \/ Advance("schema", "migrate")
       \/ Abort("schema")
    /\ UNCHANGED <<cfgVars, samplerPc, workerPc, tableVars, localVars,
                   histVars, extOps>>

\* foobar_common::MIGRATOR.run(&pool).await?
MainMigrate ==
    /\ mainPc = "migrate"
    /\ \/ Advance("migrate", "spawn")
       \/ Abort("migrate")
    /\ UNCHANGED <<cfgVars, samplerPc, workerPc, tableVars, localVars,
                   histVars, extOps>>

\* tokio::spawn(async move { loop { .. } }); foobar_worker.await
MainSpawnWorker ==
    /\ mainPc = "spawn"
    /\ mainPc' = "await"
    /\ workerPc' = "read"
    /\ before' = items
    /\ UNCHANGED <<cfgVars, failedStep, done, samplerPc, tableVars, localVars,
                   stmtBefore, stmtAfter, lastOp, lastRes, consecFails, sleeps,
                   cycleIns, cycleDel, cycleStmts, extOps>>

(***************************************************************************)
(* The metrics task (main.rs:130-136).                                     *)
(***************************************************************************)
SamplerCollect ==
    /\ Running
    /\ samplerPc = "collect"
    /\ samplerPc' = "sleep"
    /\ UNCHANGED <<cfgVars, mainVars, workerPc, tableVars, localVars,
                   histVars, extOps>>

SamplerWake ==
    /\ Running
    /\ samplerPc = "sleep"
    /\ samplerPc' = "collect"
    /\ UNCHANGED <<cfgVars, mainVars, workerPc, tableVars, localVars,
                   histVars, extOps>>

(***************************************************************************)
(* foobar_worker (main.rs:183-228).                                        *)
(***************************************************************************)
\* SELECT count(*), random() FROM items
WorkerRead ==
    /\ Running
    /\ workerPc = "read"
    /\ \/ /\ \E r \in RandomValues :
               /\ num_items' = Cardinality(items)
               /\ random' = r
          /\ workerPc' = "write"
          /\ UNCHANGED <<lastOp, lastRes, consecFails, sleeps>>
       \/ /\ consecFails < MaxFails
          /\ EndCycle("Err", "read")
          /\ UNCHANGED localVars
    /\ UNCHANGED <<cfgVars, mainVars, samplerPc, tableVars, before,
                   stmtBefore, stmtAfter, cycleIns, cycleDel, cycleStmts,
                   extOps>>

\* a second statement after the INSERT fails: res is Err, the row stays
WorkerInsert_errAfterInsert ==
    /\ Running
    /\ workerPc = "write"
    /\ ShouldInsert(num_items, random)
    /\ stmtBefore' = items
    /\ cycleStmts' = cycleStmts + 1
    /\ nextId <= MaxId
    /\ items' = items \cup {nextId}
    /\ nextId' = nextId + 1
    /\ cycleIns' = cycleIns + 1
    /\ \/ EndCycle("Ok", "insert")
       \/ /\ consecFails < MaxFails
          /\ EndCycle("Err", "insert")
    /\ stmtAfter' = items'
    /\ UNCHANGED <<cfgVars, mainVars, samplerPc, localVars, before, cycleDel,
                   extOps>>

\* the else is lost: the insert branch falls through into the DELETE
WorkerInsert_thenDelete ==
    /\ Running
    /\ workerPc = "write"
    /\ ShouldInsert(num_items, random)
    /\ stmtBefore' = items
    /\ cycleStmts' = cycleStmts + 2
    /\ nextId <= MaxId
    /\ items' = DeleteMin(items \cup {nextId})
    /\ nextId' = nextId + 1
    /\ cycleIns' = cycleIns + 1
    /\ cycleDel' = cycleDel + 1
    /\ EndCycle("Ok", "insert")
    /\ stmtAfter' = items'
    /\ UNCHANGED <<cfgVars, mainVars, samplerPc, localVars, before, extOps>>

\* INSERT INTO items(text) VALUES($1)
WorkerInsert ==
    /\ Running
    /\ workerPc = "write"
    /\ ShouldInsert(num_items, random)
    /\ stmtBefore' = items
    /\ cycleStmts' = cycleStmts + 1
    /\ \/ /\ nextId <= MaxId
          /\ items' = items \cup {nextId}
          /\ nextId' = nextId + 1
          /\ cycleIns' = cycleIns + 1
          /\ EndCycle("Ok", "insert")
       \/ /\ consecFails < MaxFails
          /\ UNCHANGED <<items, nextId, cycleIns>>
          /\ EndCycle("Err", "insert")
    /\ stmtAfter' = items'
    /\ UNCHANGED <<cfgVars, mainVars, samplerPc, localVars, before, cycleDel,
                   extOps>>

\* the minimum is taken from the rows seen when the cycle began, and the
\* DELETE names that id
WorkerDelete_remembered ==
    /\ Running
    /\ workerPc = "write"
    /\ ~ShouldInsert(num_items, random)
    /\ stmtBefore' = items
    /\ cycleStmts' = cycleStmts + 1
    /\ \/ /\ items' = items \ (before \ DeleteMin(before))
          /\ cycleDel' = cycleDel + Cardinality(items \ items')
          /\ EndCycle("Ok", "delete")
       \/ /\ consecFails < MaxFails
          /\ UNCHANGED <<items, cycleDel>>
          /\ EndCycle("Err", "delete")
    /\ stmtAfter' = items'
    /\ UNCHANGED <<cfgVars, mainVars, samplerPc, nextId, localVars, before,
                   cycleIns, extOps>>

\* DELETE FROM items WHERE id = (SELECT min(id) FROM items)
WorkerDelete ==
    /\ Running
    /\ workerPc = "write"
    /\ ~ShouldInsert(num_items, random)
    /\ stmtBefore' = items
    /\ cycleStmts' = cycleStmts + 1
    /\ \/ /\ items' = DeleteMin(items)
          /\ cycleDel' = cycleDel + Cardinality(items \ items')
          /\ EndCycle("Ok", "delete")
       \/ /\ consecFails < MaxFails
          /\ UNCHANGED <<items, cycleDel>>
          /\ EndCycle("Err", "delete")
    /\ stmtAfter' = items'
    /\ UNCHANGED <<cfgVars, mainVars, samplerPc, nextId, localVars, before,
                   cycleIns, extOps>>

\* tokio::time::sleep(Duration::from_secs(5)) completes, the loop iterates
WorkerWake ==
    /\ Running
    /\ workerPc = "sleep"
    /\ workerPc' = "read"
    /\ sleeps' = sleeps + 1
    /\ before' = items
    /\ cycleIns' = 0
    /\ cycleDel' = 0
    /\ cycleStmts' = 0
    /\ UNCHANGED <<cfgVars, mainVars, samplerPc, tableVars, localVars,
                   stmtBefore, stmtAfter, lastOp, lastRes, consecFails, extOps>>

(***************************************************************************)
(* Writers other than the worker.  The daemon does not coordinate with     *)
(* them.  They are modelled where they can come between the two statements *)
(* of a cycle, after its count read and before its INSERT or DELETE (what  *)
(* they do between cycles is a different table at the next read), and run  *)
(* at most MaxExtOps statements.                                           *)
(***************************************************************************)
ExtStep ==
    /\ Running
    /\ workerPc = "write"
    /\ extOps < MaxExtOps
    /\ extOps' = extOps + 1
    /\ UNCHANGED <<cfgVars, mainVars, samplerPc, workerPc, localVars, histVars>>

\* INSERT with the id taken from the sequence
ExtInsertNext ==
    /\ ExtStep
    /\ nextId <= MaxId
    /\ items' = items \cup {nextId}
    /\ nextId' = nextId + 1

\* INSERT with an explicit id just below every id present
ExtInsertBelow ==
    /\ ExtStep
    /\ items # {}
    /\ MinIdQuery(items)[1] > 1
    /\ items' = items \cup {MinIdQuery(items)[1] - 1}
    /\ nextId' = nextId

\* DELETE of the oldest or of the newest row
ExtDeleteOne ==
    /\ ExtStep
    /\ items # {}
    /\ \E victim \in {SetMax(items), MinIdQuery(items)[1]} :
          items' = items \ {victim}
    /\ nextId' = nextId

\* DELETE FROM items
ExtDeleteAll ==
    /\ ExtStep
    /\ items # {}
    /\ items' = {}
    /\ nextId' = nextId

External == ExtInsertNext \/ ExtInsertBelow \/ ExtDeleteOne \/ ExtDeleteAll

Worker == WorkerRead \/ WorkerInsert \/ WorkerDelete \/ WorkerWake

Main ==
    \/ MainConfig
    \/ MainInitLogging
    \/ MainInitMetrics
    \/ MainInitDatabase
    \/ MainCreateSchema
    \/ MainMigrate
    \/ MainSpawnWorker

Sampler == SamplerCollect \/ SamplerWake

(***************************************************************************)
(* Specifications.                                                         *)
(***************************************************************************)
Next == Main \/ Sampler \/ Worker

\* the daemon, the worker being the only writer of items
Spec == Init /\ [][Next]_vars

\* the same, started on an empty table
InitEmpty == InitWith(StartupInputs, {{}}, 0)

SpecEmpty == InitEmpty /\ [][Next]_vars

\* command lines without a metrics exporter: no Sampler task
PlainInputs == {in \in StartupInputs : in[1].prometheus_export = None}

NextPlain == Main \/ Worker

\* the worker on an empty table, with the runtime's timer firing: a sleep
\* that has begun completes
FairSpec ==
    /\ InitWith(PlainInputs, {{}}, 0)
    /\ [][NextPlain]_vars
    /\ WF_vars(WorkerWake)

\* the daemon next to other writers of items, on tables whose newest id
\* leaves the sequence ExtRoom more values
ExtTables ==
    {(MaxId - ExtRoom - k + 1)..(MaxId - ExtRoom) : k \in {1, 10, 20}}

InitExt == InitWith(PlainInputs, ExtTables, ExtRoom)

NextExt == NextPlain \/ External

SpecExt == InitExt /\ [][NextExt]_vars

\* Config::parse alone, on every command line and file
InitConfig == InitWith(AllInputs, {{}}, 0)

NextConfig == MainConfig

SpecConfig == InitConfig /\ [][NextConfig]_vars

(***************************************************************************)
(* Properties.                                                             *)
(***************************************************************************)
Rows(S) == Cardinality(S)

IsMinOf(m, S) == m \in S /\ \A y \in S : m <= y

\* C1: a store failure in the read, the insert or the delete never ends the
\* worker loop: the task never terminates, a failed cycle goes to the sleep,
\* and after N failed cycles in a row (any N) cycle N+1 is started.
C1_FailureNeverStopsLoop ==
    /\ [](workerPc # "terminated")
    /\ [][consecFails' > consecFails => workerPc' = "sleep"]_vars
    /\ \A n \in 0..MaxFails :
          (workerPc = "sleep" /\ consecFails = n)
              ~> (workerPc = "read" /\ consecFails = n)

C1_Witness ==
    workerPc = "read" /\ consecFails = MaxFails /\ lastOp = "delete"

\* C2 as stated: every cycle that starts on fewer than 10 rows leaves the
\* table with one row more.
C2_Original ==
    (workerPc = "sleep" /\ Rows(before) < 10) =>
        Rows(items) = Rows(before) + 1

\* C2 amended: a cycle that starts on fewer than 10 rows never deletes,
\* whatever random() returned; when its read and its INSERT succeed the table
\* is the old one plus one row, and when one of them fails the table is
\* unchanged.
C2_SmallTableInserts ==
    (workerPc = "sleep" /\ Rows(before) < 10) =>
        /\ cycleDel = 0
        /\ lastOp \in {"read", "insert"}
        /\ lastRes = "Ok" =>
              /\ lastOp = "insert"
              /\ before \subseteq items
              /\ Rows(items) = Rows(before) + 1
        /\ lastRes = "Err" => items = before

C2_Witness ==
    /\ workerPc = "sleep"
    /\ lastRes = "Ok"
    /\ Rows(before) = 9
    /\ random = 99
    /\ Rows(items) = 10

\* C3 as stated: every cycle that starts on 20 or more rows removes the row
\* with the minimum id and leaves one row less.
C3_Original ==
    (workerPc = "sleep" /\ Rows(before) >= 20) =>
        /\ Rows(items) = Rows(before) - 1
        /\ \A x \in before \ items : IsMinOf(x, before)

\* C3 amended: a cycle that starts on 20 or more rows never inserts, whatever
\* random() returned; when its read and its DELETE succeed exactly the row
\* with the minimum id present before the cycle is gone, and when one of them
\* fails the table is unchanged.
C3_LargeTableEvictsMin ==
    (workerPc = "sleep" /\ Rows(before) >= 20) =>
        /\ cycleIns = 0
        /\ lastOp \in {"read", "delete"}
        /\ lastRes = "Ok" =>
              /\ lastOp = "delete"
              /\ items \subseteq before
              /\ Rows(items) = Rows(before) - 1
              /\ \A x \in before \ items : IsMinOf(x, before)
        /\ lastRes = "Err" => items = before

C3_Witness ==
    /\ workerPc = "sleep"
    /\ lastRes = "Ok"
    /\ Rows(before) = 22
    /\ random = 0
    /\ 2 \in before \ items
    /\ 4 \in items

\* C4: a cycle issues at most one write statement and changes at most one
\* row: one insert or one delete, never both, also when the cycle fails.
C4_AtMostOneMutation ==
    /\ cycleStmts <= 1
    /\ cycleIns + cycleDel <= 1
    /\ workerPc # "unspawned" =>
          Rows(items \ before) + Rows(before \ items) = cycleIns + cycleDel

C4_Witness == workerPc = "sleep" /\ cycleDel = 1 /\ lastRes = "Ok"

StepOrder == <<"config", "logging", "metrics", "database", "schema", "migrate">>

AllSteps == {StepOrder[i] : i \in 1..Len(StepOrder)}

Rank(step) == CHOOSE i \in 1..Len(StepOrder) : StepOrder[i] = step

C6_OneSleepBetweenCycles ==
    /\ workerPc \in {"read", "write"} =>
          sleeps = IF lastRes = "none" THEN 0 ELSE 1
    /\ workerPc = "sleep" => (sleeps = 0 /\ lastRes # "none")
    /\ workerPc \in {"unspawned", "read", "write", "sleep"}

C6_Witness == workerPc = "read" /\ lastRes = "Err" /\ sleeps = 1

\* the file's value of a field: None without -c
FileValue(F) == IF args.config # None THEN file.content[F] ELSE None

\* C7: per field, the command line's value wins over the file's, the file's
\* over the default; the default is DEFAULT_DSN for dsn and absent otherwise.
C7_ConfigPrecedence ==
    config.res = "Ok" =>
        \A F \in Fields :
            /\ args[F] # None => config[F] = args[F]
            /\ (args[F] = None /\ FileValue(F) # None) =>
                  config[F] = FileValue(F)
            /\ (args[F] = None /\ FileValue(F) = None) =>
                  config[F] = IF F = "dsn"
                              THEN "postgresql://foobar@localhost/foobar"
                              ELSE None

C7_Witness ==
    /\ config.res = "Ok"
    /\ args.dsn = "B" /\ FileValue("dsn") = "A" /\ config.dsn = "B"
    /\ args.loki_url = None /\ FileValue("loki_url") = "A"
    /\ config.loki_url = "A"
    /\ args.log_directory = None /\ FileValue("log_directory") = None
    /\ config.log_directory = None

\* C8: a DELETE of the worker that succeeds removes exactly the row whose id
\* is the minimum at the moment the statement runs, also when another writer
\* changed the table after the cycle's count read; on a table that has become
\* empty it removes nothing, and it can succeed there.
C8_DeleteByCurrentMin ==
    /\ (lastOp = "delete" /\ lastRes = "Ok") =>
          /\ stmtAfter \subseteq stmtBefore
          /\ stmtBefore = {} => stmtAfter = {}
          /\ stmtBefore # {} =>
                \E m \in stmtBefore :
                    IsMinOf(m, stmtBefore) /\ stmtAfter = stmtBefore \ {m}
    /\ (workerPc = "write" /\ ~ShouldInsert(num_items, random) /\ items = {}) =>
          ENABLED (WorkerDelete /\ lastRes' = "Ok")

C8_Witness ==
    /\ workerPc = "sleep"
    /\ lastOp = "delete"
    /\ lastRes = "Ok"
    /\ \E m \in stmtBefore \ stmtAfter : m \notin before
    /\ before \subseteq items

\* C9: started on an empty table with the worker as the only writer, the row
\* count stays within 0..20, and once it has reached 10 it stays at 9 or more.
C9_RowCountBand ==
    /\ [](Rows(items) \in 0..20)
    /\ [](Rows(items) >= 10 => [](Rows(items) >= 9))

C9_Witness ==
    /\ workerPc = "sleep"
    /\ lastOp = "delete"
    /\ lastRes = "Ok"
    /\ Rows(items) = 9
    /\ nextId > 21

\* C10: a cycle whose res is Err leaves the table as it was when the cycle
\* began; when the count read failed no write statement was issued.
C10_FailedCycleNoChange ==
    (workerPc = "sleep" /\ lastRes = "Err") =>
        /\ items = before
        /\ cycleIns = 0
        /\ cycleDel = 0
        /\ lastOp = "read" => cycleStmts = 0
        /\ lastOp # "read" => cycleStmts = 1

C10_Witness ==
    /\ workerPc = "sleep"
    /\ lastRes = "Err"
    /\ lastOp = "insert"
    /\ Rows(items) = 19

====
